---- MODULE Spec2Model ----
(***************************************************************************)
(* DailyProfitManager (src/legacy/daily_profit_manager.py) as a state      *)
(* machine: the tracker's fields, the wall clock, the JSON state file and  *)
(* the result of the last call.                                            *)
(*                                                                         *)
(* Units.  Time is counted in ticks, TicksPerSecond to the second, from    *)
(* 00:00:00 of day 0.  Money is counted in sub-cent units, UnitsPerCent to *)
(* the cent, so that round(x, 2) is a real rounding.  Lot sizes are in     *)
(* hundredths of a lot, percentages in tenths of a percent.                *)
(***************************************************************************)
EXTENDS Integers, Sequences, FiniteSets, TLC

\* ---------------------------------------------------------------- bounds
TicksPerSecond == 2
UnitsPerCent == 2
NumDays == 2
MaxTrades == 2

\* ------------------------------------------------- constants of the code
HoursPerDay == 24
MinutesPerHour == 60
SecondsPerMinute == 60
SecondsPerHour == 3600
FRIDAY == 4
DaysPerWeek == 7
daily_target_gross == 17500
broker_fee_per_lot == 551
min_trade_interval_normal == 180
min_trade_interval_aggressive == 60
friday_close_hour == 22
adaptive_threshold == 70
estimated_minutes_per_trade == 30
magic_number == 79
LotScale == 100
PercentScale == 100

\* -------------------------------------------------------------- optionals
None == <<>>
Some(x) == <<x>>
Get(o) == o[1]

\* ------------------------------------------------------------------ clock
DayTicks == HoursPerDay * SecondsPerHour * TicksPerSecond
HMS(h, m, s) == ((h * MinutesPerHour + m) * SecondsPerMinute + s) * TicksPerSecond
At(d, tod) == d * DayTicks + tod

\* datetime.date(), .hour, .minute, .weekday() of a datetime
DateOf(t) == t \div DayTicks
TimeOfDay(t) == t % DayTicks
HourOf(t) == TimeOfDay(t) \div (SecondsPerHour * TicksPerSecond)
MinuteOf(t) == (TimeOfDay(t) % (SecondsPerHour * TicksPerSecond)) \div (SecondsPerMinute * TicksPerSecond)
StartWeekday == FRIDAY - 1
WeekdayOf(t) == (StartWeekday + DateOf(t)) % DaysPerWeek

\* The instants the clock can show: on each day midnight, the minutes around
\* the Friday close hour (spaced so that the gaps between them fall below, on
\* and above both pacing intervals, down to one tick) and the last minute of
\* the day.
TimesOfDay ==
    { HMS(0, 0, 0),
      HMS(21, 57, 0), HMS(21, 57, 0) + 1, HMS(21, 58, 0), HMS(21, 58, 40),
      HMS(22, 0, 0) - 1, HMS(22, 0, 0), HMS(22, 0, 1),
      HMS(23, 59, 0) }
Instants == { At(d, tod) : d \in 0..(NumDays - 1), tod \in TimesOfDay }

\* a coarser clock: midnight and one afternoon instant of each day
CoarseTimesOfDay == { HMS(0, 0, 0), HMS(21, 58, 0) }
CoarseInstants == { At(d, tod) : d \in 0..(NumDays - 1), tod \in CoarseTimesOfDay }

\* --------------------------------------------------------------- rounding
\* round(n / d) to the nearest integer, ties to even (Python's round), d > 0
RoundDiv(n, d) ==
    LET q == n \div d
        r == n % d
    IN  IF 2 * r < d THEN q
        ELSE IF 2 * r > d THEN q + 1
        ELSE IF q % 2 = 0 THEN q ELSE q + 1

\* round(x, 2) of an amount: to whole cents, still counted in units
Round2(x) == RoundDiv(x, UnitsPerCent) * UnitsPerCent

Target == daily_target_gross * UnitsPerCent


\* ------------------------------------------------------------------ state
VARIABLES
    pacing_mode,            \* config, fixed at construction
    enable_pacing,          \* config, fixed at construction
    daily_target_reached,
    last_reset_date,
    trades_today,
    total_fees_today,
    gross_profit_today,
    net_profit_today,
    last_trade_time,        \* None or Some(instant)
    now,                    \* the wall clock, datetime.now()
    state_file,             \* None or Some([json, mtime]): the JSON state file
    ret,                    \* what the last call returned and logged
    returned_true_today,    \* check_target_reached() has returned True on today's date
    event_today,            \* "DAILY TARGET REACHED" has been logged on today's date
    query                   \* how the last call's trade-history query came out, "" if it made none

config == <<pacing_mode, enable_pacing>>
daily == <<daily_target_reached, last_reset_date, trades_today, total_fees_today,
           gross_profit_today, net_profit_today, last_trade_time>>
history == <<returned_true_today, event_today, query>>
vars == <<config, daily, now, state_file, ret>>

PacingModes == {"gentle", "aggressive", "adaptive"}

\* ------------------------------------------------ the trade-history source
symbol == "XAUUSD"
Deal(m, s, e, p, v) == [magic |-> m, symbol |-> s, entry |-> e, profit |-> p, volume |-> v]
Cents(c) == c * UnitsPerCent

\* Deals the history can hold: a winning and a losing close of this bot, a
\* close whose profit is one unit short of the target, the opening deal of a
\* position and a close of another bot.
Win == Deal(magic_number, symbol, 1, Cents(10000), 70)
Loss == Deal(magic_number, symbol, 1, Cents(0 - 5000), 70)
Near == Deal(magic_number, symbol, 1, Target - 1, 100)
Opening == Deal(magic_number, symbol, 0, 0, 70)
Foreign == Deal(magic_number + 1, symbol, 1, Cents(10000), 70)

\* What mt5.history_deals_get can do: raise, return None, return deals.
QueryResults ==
    { [kind |-> "raise", deals |-> <<>>], [kind |-> "none", deals |-> <<>>] }
    \cup { [kind |-> "deals", deals |-> ds] :
             ds \in { <<>>, <<Foreign>>, <<Opening, Win>>, <<Loss>>, <<Near>>,
                      <<Win, Foreign, Win>> } }

\* -------------------------------------------------------- pure functions
calculate_trade_fee(lot_size) ==
    RoundDiv(lot_size * broker_fee_per_lot, LotScale) * UnitsPerCent

RECURSIVE SumProfit(_)
SumProfit(ds) == IF ds = <<>> THEN 0 ELSE Head(ds).profit + SumProfit(Tail(ds))

RECURSIVE SumFees(_)
SumFees(ds) ==
    IF ds = <<>> THEN 0 ELSE calculate_trade_fee(Head(ds).volume) + SumFees(Tail(ds))

IsRelevant(d) == d.magic = magic_number /\ d.symbol = symbol /\ d.entry = 1
relevant_deals(ds) == SelectSeq(ds, IsRelevant)

ZeroStats ==
    [trades_count |-> 0, gross_profit |-> 0, total_fees |-> 0, net_profit |-> 0,
     target_percentage |-> 0, average_profit_per_trade |-> 0,
     estimated_target_eta |-> None]

\* target_percentage, in tenths of a percent: round(gross / target * 100, 1)
TargetPercentage(gross) ==
    IF Target > 0 THEN RoundDiv(gross * PercentScale * 10, Target) ELSE 0

EstimatedEta(gross, count, t) ==
    IF gross > 0 /\ gross < Target
    THEN Some(t + RoundDiv((Target - gross) * count * estimated_minutes_per_trade
                             * SecondsPerMinute * TicksPerSecond, gross))
    ELSE None

\* a get_daily_stats that answers a raising query with the stored counters
get_daily_stats_last_known(q, t) ==
    LET rel == relevant_deals(q.deals)
        trades_count == IF q.kind = "raise" THEN trades_today ELSE Len(rel)
        gross_profit == IF q.kind = "raise" THEN gross_profit_today ELSE SumProfit(rel)
        total_fees == IF q.kind = "raise" THEN total_fees_today ELSE SumFees(rel)
        net_profit == gross_profit - total_fees
    IN  IF trades_count = 0
        THEN [stats |-> ZeroStats, updated |-> FALSE,
              trades |-> 0, gross |-> 0, fees |-> 0, net |-> 0]
        ELSE [stats |->
                [trades_count |-> trades_count,
                 gross_profit |-> Round2(gross_profit),
                 total_fees |-> Round2(total_fees),
                 net_profit |-> Round2(net_profit),
                 target_percentage |-> TargetPercentage(gross_profit),
                 average_profit_per_trade |->
                     RoundDiv(gross_profit, trades_count * UnitsPerCent) * UnitsPerCent,
                 estimated_target_eta |-> EstimatedEta(gross_profit, trades_count, t)],
              updated |-> q.kind # "raise",
              trades |-> trades_count, gross |-> gross_profit,
              fees |-> total_fees, net |-> net_profit]

\* get_daily_stats on the query result q at instant t: the stats it returns,
\* whether it overwrites the stored counters, and with what.
get_daily_stats(q, t) ==
    LET rel == relevant_deals(q.deals)
        trades_count == Len(rel)
        gross_profit == SumProfit(rel)
        total_fees == SumFees(rel)
        net_profit == gross_profit - total_fees
    IN  IF q.kind = "raise" \/ q.kind = "none" \/ Len(q.deals) = 0 \/ trades_count = 0
        THEN [stats |-> ZeroStats, updated |-> FALSE,
              trades |-> 0, gross |-> 0, fees |-> 0, net |-> 0]
        ELSE [stats |->
                [trades_count |-> trades_count,
                 gross_profit |-> Round2(gross_profit),
                 total_fees |-> Round2(total_fees),
                 net_profit |-> Round2(net_profit),
                 target_percentage |-> TargetPercentage(gross_profit),
                 average_profit_per_trade |->
                     RoundDiv(gross_profit, trades_count * UnitsPerCent) * UnitsPerCent,
                 estimated_target_eta |-> EstimatedEta(gross_profit, trades_count, t)],
              updated |-> TRUE,
              trades |-> trades_count, gross |-> gross_profit,
              fees |-> total_fees, net |-> net_profit]

\* What a call hands back: its boolean and reason, the wait and the stats it
\* worked with, and whether it logged "DAILY TARGET REACHED".  For a call that
\* returns nothing the reason is its last log line, if it logged any.
\* every way get_daily_stats can come out at instant t
StatsOutcomes(t) == { get_daily_stats(q, t) : q \in QueryResults }

Ret(ok, reason, wait, stats, event) ==
    [ok |-> ok, reason |-> reason, wait |-> wait, stats |-> stats, event |-> event]
NoRet == Ret(FALSE, "", 0, ZeroStats, FALSE)
Logged(line) == Ret(FALSE, line, 0, ZeroStats, FALSE)

\* ------------------------------------------------------------ construction
\* __init__: the fields of a new tracker at instant t
Construct(t) ==
    /\ daily_target_reached' = FALSE
    /\ last_reset_date' = DateOf(t)
    /\ trades_today' = 0
    /\ total_fees_today' = 0
    /\ gross_profit_today' = 0
    /\ net_profit_today' = 0
    /\ last_trade_time' = None

\* a tracker just constructed at 00:00:00 of day 0, its pacing configuration
\* one of the given modes and switches
Constructed(modes, switches) ==
    /\ pacing_mode \in modes
    /\ enable_pacing \in switches
    /\ now = At(0, HMS(0, 0, 0))
    /\ daily_target_reached = FALSE
    /\ last_reset_date = DateOf(now)
    /\ trades_today = 0
    /\ total_fees_today = 0
    /\ gross_profit_today = 0
    /\ net_profit_today = 0
    /\ last_trade_time = None
    /\ state_file = None
    /\ ret = NoRet
    /\ returned_true_today = FALSE
    /\ event_today = FALSE
    /\ query = ""

\* the default configuration: pacing on, adaptive (lines 47-48)
Init == Constructed({"adaptive"}, {TRUE})

\* every pacing configuration
InitGate == Constructed(PacingModes, BOOLEAN)


\* ------------------------------------------------------------- operations
SetDaily(reached, date, trades, fees, gross, net, ltt) ==
    /\ daily_target_reached' = reached
    /\ last_reset_date' = date
    /\ trades_today' = trades
    /\ total_fees_today' = fees
    /\ gross_profit_today' = gross
    /\ net_profit_today' = net
    /\ last_trade_time' = ltt

\* counters that take the totals of every outcome, the zeros included
SetCountersAlways(ds) ==
    /\ trades_today' = ds.trades
    /\ gross_profit_today' = ds.gross
    /\ total_fees_today' = ds.fees
    /\ net_profit_today' = ds.net

\* the counters after get_daily_stats returned ds ("Update internal state")
SetCounters(ds) ==
    /\ trades_today' = (IF ds.updated THEN ds.trades ELSE trades_today)
    /\ gross_profit_today' = (IF ds.updated THEN ds.gross ELSE gross_profit_today)
    /\ total_fees_today' = (IF ds.updated THEN ds.fees ELSE total_fees_today)
    /\ net_profit_today' = (IF ds.updated THEN ds.net ELSE net_profit_today)

\* a rollover check that lets one day pass
RolloverLate(t, reset_date) == DateOf(t) > reset_date + 1

\* "if now.date() > self.last_reset_date"
RolloverDue(t, reset_date) == DateOf(t) > reset_date

\* a Friday close that starts an hour late
FridayClosedAfterHour(t) == WeekdayOf(t) = FRIDAY /\ HourOf(t) > friday_close_hour

\* "now.weekday() == 4 and now.hour >= self.friday_close_hour"
FridayClosed(t) == WeekdayOf(t) = FRIDAY /\ HourOf(t) >= friday_close_hour

\* adaptive mode: "actual_progress < expected_progress * self.adaptive_threshold",
\* with expected_progress = (hour + minute / 60) / 24 * 100, cleared of fractions
BehindSchedule(target_percentage, t) ==
    target_percentage * MinutesPerHour * HoursPerDay * PercentScale
        < (HourOf(t) * MinutesPerHour + MinuteOf(t)) * PercentScale * 10 * adaptive_threshold

\* an interval selection with the adaptive branches exchanged
required_interval_exchanged(mode, target_percentage, t) ==
    IF mode = "aggressive" THEN min_trade_interval_aggressive
    ELSE IF mode = "gentle" THEN min_trade_interval_normal
    ELSE IF mode = "adaptive"
         THEN IF BehindSchedule(target_percentage, t)
              THEN min_trade_interval_normal
              ELSE min_trade_interval_aggressive
    ELSE min_trade_interval_normal

\* the required interval in seconds, by pacing mode
required_interval(mode, target_percentage, t) ==
    IF mode = "aggressive" THEN min_trade_interval_aggressive
    ELSE IF mode = "gentle" THEN min_trade_interval_normal
    ELSE IF mode = "adaptive"
         THEN IF BehindSchedule(target_percentage, t)
              THEN min_trade_interval_aggressive
              ELSE min_trade_interval_normal
    ELSE min_trade_interval_normal

\* "time_since_last < required_interval", both sides in ticks
TooSoon(since, required) == since < required * TicksPerSecond

\* "int(required_interval - time_since_last)", in whole seconds
wait_time(since, required) == (required * TicksPerSecond - since) \div TicksPerSecond

\* get_daily_stats(): lines 96-195, the query having come out as ds
GetDailyStatsWith(ds) ==
    /\ SetCounters(ds)
    /\ ret' = Ret(FALSE, "stats", 0, ds.stats, FALSE)
    /\ UNCHANGED <<config, daily_target_reached, last_reset_date, last_trade_time,
                   now, state_file>>

GetDailyStats == \E ds \in StatsOutcomes(now) : GetDailyStatsWith(ds)

\* check_target_reached(): lines 197-216
CheckTargetReachedWith(ds) ==
    LET target_reached == ds.stats.gross_profit >= Target
        event == target_reached /\ ~daily_target_reached
    IN  /\ SetCounters(ds)
        /\ daily_target_reached' = (IF event THEN TRUE ELSE daily_target_reached)
        /\ ret' = Ret(target_reached, "checked", 0, ds.stats, event)
        /\ UNCHANGED <<config, last_reset_date, last_trade_time, now, state_file>>

CheckTargetReached == \E ds \in StatsOutcomes(now) : CheckTargetReachedWith(ds)

\* should_allow_trading(): lines 218-272
ShouldAllowTrading ==
    LET due == RolloverDue(now, last_reset_date)
        \* the fields after "self.reset_daily_state()"
        reached == IF due THEN FALSE ELSE daily_target_reached
        date == IF due THEN DateOf(now) ELSE last_reset_date
        trades == IF due THEN 0 ELSE trades_today
        fees == IF due THEN 0 ELSE total_fees_today
        gross == IF due THEN 0 ELSE gross_profit_today
        net == IF due THEN 0 ELSE net_profit_today
        ltt == IF due THEN None ELSE last_trade_time
    IN  /\ UNCHANGED <<config, now, state_file>>
        /\ IF reached
           THEN /\ SetDaily(reached, date, trades, fees, gross, net, ltt)
                /\ ret' = Ret(FALSE, "target", 0, ZeroStats, FALSE)
           ELSE IF FridayClosed(now)
           THEN /\ SetDaily(reached, date, trades, fees, gross, net, ltt)
                /\ ret' = Ret(FALSE, "friday", 0, ZeroStats, FALSE)
           ELSE IF enable_pacing /\ ltt # None
           THEN \* only the adaptive mode calls get_daily_stats()
                \E ds \in IF pacing_mode = "adaptive" THEN StatsOutcomes(now)
                          ELSE { [stats |-> ZeroStats, updated |-> FALSE,
                                  trades |-> 0, gross |-> 0, fees |-> 0, net |-> 0] } :
                    LET since == now - Get(ltt)
                        required ==
                            required_interval(pacing_mode, ds.stats.target_percentage, now)
                    IN  /\ SetDaily(reached, date,
                                    IF ds.updated THEN ds.trades ELSE trades,
                                    IF ds.updated THEN ds.fees ELSE fees,
                                    IF ds.updated THEN ds.gross ELSE gross,
                                    IF ds.updated THEN ds.net ELSE net,
                                    ltt)
                        /\ ret' = IF TooSoon(since, required)
                                  THEN Ret(FALSE, "pacing", wait_time(since, required),
                                           ds.stats, FALSE)
                                  ELSE Ret(TRUE, "allowed", 0, ds.stats, FALSE)
           ELSE /\ SetDaily(reached, date, trades, fees, gross, net, ltt)
                /\ ret' = Ret(TRUE, "allowed", 0, ZeroStats, FALSE)

LotSizes == { 70 }
\* the lot sizes a caller can pass: a float of either sign
AnyLotSizes == { 0 - 70, 0, 70 }
Profits == { Cents(10000), Cents(0 - 5000) }

\* record_trade that adds the profit to the net and forgets the fee
RecordTradeFeeForgotten(lot_size, profit) ==
    /\ trades_today < MaxTrades
    /\ last_trade_time' = Some(now)
    /\ trades_today' = trades_today + 1
    /\ gross_profit_today' = gross_profit_today + profit
    /\ total_fees_today' = total_fees_today + calculate_trade_fee(lot_size)
    /\ net_profit_today' = net_profit_today + profit
    /\ ret' = Logged("recorded")
    /\ UNCHANGED <<config, daily_target_reached, last_reset_date, now, state_file>>

\* a record_trade that does not stamp the time of the trade
RecordTradeUnstamped(lot_size, profit) ==
    /\ trades_today < MaxTrades
    /\ trades_today' = trades_today + 1
    /\ gross_profit_today' = gross_profit_today + profit
    /\ total_fees_today' = total_fees_today + calculate_trade_fee(lot_size)
    /\ net_profit_today' = gross_profit_today' - total_fees_today'
    /\ ret' = Logged("recorded")
    /\ UNCHANGED <<config, daily_target_reached, last_reset_date, last_trade_time,
                   now, state_file>>

\* record_trade(lot_size, profit): lines 294-311
RecordTrade(lot_size, profit) ==
    /\ trades_today < MaxTrades
    /\ last_trade_time' = Some(now)
    /\ trades_today' = trades_today + 1
    /\ gross_profit_today' = gross_profit_today + profit
    /\ total_fees_today' = total_fees_today + calculate_trade_fee(lot_size)
    /\ net_profit_today' = gross_profit_today' - total_fees_today'
    /\ ret' = Logged("recorded")
    /\ UNCHANGED <<config, daily_target_reached, last_reset_date, now, state_file>>

\* a reset that keeps the time of the last trade
ResetKeepsLastTrade ==
    /\ SetDaily(FALSE, DateOf(now), 0, 0, 0, 0, last_trade_time)
    /\ ret' = Logged("reset")
    /\ UNCHANGED <<config, now, state_file>>

\* a call that returns a number: the number is in the wait field
Number(kind, n) == Ret(FALSE, kind, n, ZeroStats, FALSE)

\* calculate_trade_fee(lot_size) called on its own: lines 83-94
CalculateTradeFee(lot_size) ==
    /\ ret' = Number("fee", calculate_trade_fee(lot_size))
    /\ UNCHANGED <<config, daily, now, state_file>>

\* "now.replace(hour=self.friday_close_hour, minute=0, second=0, microsecond=0)"
friday_close(t) == At(DateOf(t), HMS(friday_close_hour, 0, 0))

\* round(span / 3600, 1) of a span in ticks, in tenths of an hour.  Where the
\* quotient lies exactly between two tenths, the double that holds it decides
\* (round(0.05, 1) is 0.1, round(0.15, 1) is 0.1): either neighbour.
TenthOfHour == (SecondsPerHour * TicksPerSecond) \div 10
RoundTenths(span) ==
    LET q == span \div TenthOfHour
        r == span % TenthOfHour
    IN  IF 2 * r < TenthOfHour THEN { q }
        ELSE IF 2 * r > TenthOfHour THEN { q + 1 }
        ELSE { q, q + 1 }

\* hours remaining that go below zero after the close
hours_remaining_unfloored(t) ==
    IF WeekdayOf(t) # FRIDAY THEN { None }
    ELSE { Some(h) : h \in RoundTenths(friday_close(t) - t) }

\* get_friday_trading_hours_remaining() at instant t: lines 274-292, what it
\* can return, None or the hours in tenths
get_friday_trading_hours_remaining(t) ==
    IF WeekdayOf(t) # FRIDAY THEN { None }
    ELSE IF t >= friday_close(t) THEN { Some(0) }
    ELSE { Some(h) : h \in RoundTenths(friday_close(t) - t) }

GetFridayTradingHoursRemaining ==
    /\ \E hours \in get_friday_trading_hours_remaining(now) :
           ret' = IF hours = None THEN Logged("no_hours") ELSE Number("hours", Get(hours))
    /\ UNCHANGED <<config, daily, now, state_file>>

\* track_trade_open(): lines 471-480, a log line
TrackTradeOpen ==
    /\ ret' = Logged("opened")
    /\ UNCHANGED <<config, daily, now, state_file>>

\* track_trade_close(): lines 482-497, record_trade(lot_size, profit) and a log line
TrackTradeClose(lot_size, profit) ==
    /\ trades_today < MaxTrades
    /\ last_trade_time' = Some(now)
    /\ trades_today' = trades_today + 1
    /\ gross_profit_today' = gross_profit_today + profit
    /\ total_fees_today' = total_fees_today + calculate_trade_fee(lot_size)
    /\ net_profit_today' = gross_profit_today' - total_fees_today'
    /\ ret' = Logged("closed")
    /\ UNCHANGED <<config, daily_target_reached, last_reset_date, now, state_file>>

\* reset_daily_state(): lines 313-324
ResetDailyState ==
    /\ SetDaily(FALSE, DateOf(now), 0, 0, 0, 0, None)
    /\ ret' = Logged("reset")
    /\ UNCHANGED <<config, now, state_file>>

\* get_progress_report(): lines 326-374, as far as it touches the tracker
GetProgressReport ==
    \E ds \in StatsOutcomes(now) :
            /\ SetCounters(ds)
            /\ ret' = Ret(FALSE, "stats", 0, ds.stats, FALSE)
            /\ UNCHANGED <<config, daily_target_reached, last_reset_date, last_trade_time,
                           now, state_file>>

\* get_compact_progress(): lines 376-384
GetCompactProgress ==
    \E ds \in StatsOutcomes(now) :
            /\ SetCounters(ds)
            /\ ret' = Ret(FALSE, "stats", 0, ds.stats, FALSE)
            /\ UNCHANGED <<config, daily_target_reached, last_reset_date, last_trade_time,
                           now, state_file>>


\* ------------------------------------------------------------ persistence
\* date.isoformat() and datetime.isoformat(): the text "YYYY-MM-DD" and
\* "YYYY-MM-DDTHH:MM:SS[.ffffff]", as the fields they spell out
date_isoformat(d) == <<"date", d>>
datetime_isoformat(t) == <<"datetime", DateOf(t), TimeOfDay(t)>>

\* datetime.fromisoformat(): a date-only text parses to midnight of that date
fromisoformat(text) ==
    IF text[1] = "date" THEN At(text[2], 0) ELSE At(text[2], text[3])

\* the dictionary save_state() dumps
Snapshot ==
    [date |-> date_isoformat(last_reset_date),
     target_reached |-> daily_target_reached,
     trades_today |-> trades_today,
     gross_profit |-> gross_profit_today,
     total_fees |-> total_fees_today,
     net_profit |-> net_profit_today,
     last_trade_time |->
         IF last_trade_time # None THEN Some(datetime_isoformat(Get(last_trade_time)))
         ELSE None]

\* the file save_state() leaves at instant t: the JSON text and the day it was written
Written(snapshot, t) == Some([json |-> snapshot, mtime |-> DateOf(t)])

\* a date test that also takes older snapshots
SameOrOlderDate(text, t) == DateOf(fromisoformat(text)) <= DateOf(t)

\* "if saved_date == datetime.now().date()"
SameDate(text, t) == DateOf(fromisoformat(text)) = DateOf(t)

\* save_state(): lines 386-412
SaveState ==
    /\ state_file' = Written(Snapshot, now)
    /\ ret' = Logged("saved")
    /\ UNCHANGED <<config, daily, now>>

\* what can be wrong with the file: json.load raises on its content, the
\* 'date' key is missing, or a date or time text is not ISO
Unreadable == [corrupt |-> TRUE]
NotISO == <<"garbage">>
Parsable(text) == text[1] \in {"date", "datetime"}
WithoutDate(state) == [k \in (DOMAIN state) \ {"date"} |-> state[k]]
Damaged(state) ==
    { Unreadable,
      WithoutDate(state),
      [state EXCEPT !.date = NotISO],
      [state EXCEPT !.last_trade_time = Some(NotISO)] }

\* load_state(): lines 414-447.  An exception leaves the try block where it
\* is raised: what was assigned before it stays assigned.
LoadState ==
    IF state_file = None
    THEN /\ ret' = Logged("no_file")
         /\ UNCHANGED <<config, daily, now, state_file>>
    ELSE LET state == Get(state_file).json
         IN  IF \/ "corrupt" \in DOMAIN state
                \/ "date" \notin DOMAIN state
                \/ ~Parsable(state.date)
             THEN /\ ret' = Logged("error")
                  /\ UNCHANGED <<config, daily, now, state_file>>
             ELSE IF SameDate(state.date, now)
             THEN /\ daily_target_reached' = state.target_reached
                  /\ trades_today' = state.trades_today
                  /\ gross_profit_today' = state.gross_profit
                  /\ total_fees_today' = state.total_fees
                  /\ net_profit_today' = state.net_profit
                  /\ IF state.last_trade_time # None
                     THEN IF Parsable(Get(state.last_trade_time))
                          THEN /\ last_trade_time' =
                                      Some(fromisoformat(Get(state.last_trade_time)))
                               /\ ret' = Logged("loaded")
                          ELSE /\ ret' = Logged("error")
                               /\ UNCHANGED last_trade_time
                     ELSE /\ ret' = Logged("loaded")
                          /\ UNCHANGED last_trade_time
                  /\ UNCHANGED <<config, last_reset_date, now, state_file>>
             ELSE /\ ret' = Logged("different_date")
                  /\ UNCHANGED <<config, daily, now, state_file>>

\* something else than save_state() rewrites the file
DamageFile ==
    /\ state_file # None
    /\ "corrupt" \notin DOMAIN Get(state_file).json
    /\ "date" \in DOMAIN Get(state_file).json
    /\ \E state \in Damaged(Get(state_file).json) :
           state_file' = Some([json |-> state, mtime |-> DateOf(now)])
    /\ ret' = NoRet
    /\ UNCHANGED <<config, daily, now>>

\* an update that saves whether or not there were trades
UpdateAlwaysSaves ==
    LET due == RolloverDue(now, last_reset_date)
    IN  /\ SetDaily(IF due THEN FALSE ELSE daily_target_reached,
                    IF due THEN DateOf(now) ELSE last_reset_date,
                    IF due THEN 0 ELSE trades_today,
                    IF due THEN 0 ELSE total_fees_today,
                    IF due THEN 0 ELSE gross_profit_today,
                    IF due THEN 0 ELSE net_profit_today,
                    IF due THEN None ELSE last_trade_time)
        /\ state_file' = Written(Snapshot', now)
        /\ ret' = (IF trades_today' > 0 THEN Logged("saved")
                   ELSE IF due THEN Logged("reset") ELSE NoRet)
        /\ UNCHANGED <<config, now>>

\* update(): lines 459-469
Update ==
    LET due == RolloverDue(now, last_reset_date)
        reached == IF due THEN FALSE ELSE daily_target_reached
        date == IF due THEN DateOf(now) ELSE last_reset_date
        trades == IF due THEN 0 ELSE trades_today
        fees == IF due THEN 0 ELSE total_fees_today
        gross == IF due THEN 0 ELSE gross_profit_today
        net == IF due THEN 0 ELSE net_profit_today
        ltt == IF due THEN None ELSE last_trade_time
    IN  /\ SetDaily(reached, date, trades, fees, gross, net, ltt)
        /\ state_file' =
               (IF trades > 0
                THEN Written([date |-> date_isoformat(date),
                              target_reached |-> reached,
                              trades_today |-> trades,
                              gross_profit |-> gross,
                              total_fees |-> fees,
                              net_profit |-> net,
                              last_trade_time |->
                                  IF ltt # None THEN Some(datetime_isoformat(Get(ltt)))
                                  ELSE None], now)
                ELSE state_file)
        /\ ret' = (IF trades > 0 THEN Logged("saved") ELSE IF due THEN Logged("reset") ELSE NoRet)
        /\ UNCHANGED <<config, now>>

\* a restart of the host: __init__ (lines 26-81) on a new tracker, the file kept
Restart ==
    /\ Construct(now)
    /\ ret' = Logged("initialized")
    /\ UNCHANGED <<config, now, state_file>>

\* the wall clock moves on between two calls
Advance(instants) ==
    \E t \in instants :
        /\ t > now
        /\ now' = t
        /\ ret' = NoRet
        /\ UNCHANGED <<config, daily, state_file>>

Tick == Advance(Instants)
CoarseTick == Advance(CoarseInstants)

RecordSomeTrade == \E lot_size \in LotSizes, profit \in Profits : RecordTrade(lot_size, profit)
RecordWinningTrade == RecordTrade(70, Cents(10000))
RecordAnyTrade == \E lot_size \in AnyLotSizes, profit \in Profits : RecordTrade(lot_size, profit)
CloseSomeTrade == \E lot_size \in LotSizes, profit \in Profits : TrackTradeClose(lot_size, profit)

\* ---------------------------------------------------------- specifications
\* The history variables record what has happened on today's date: they are
\* cleared when the date changes and when a new tracker is constructed.
Forgotten == DateOf(now') # DateOf(now) \/ ret'.reason = "initialized"
Monitor ==
    /\ returned_true_today' =
           (IF Forgotten THEN FALSE
            ELSE returned_true_today \/ (ret'.reason = "checked" /\ ret'.ok))
    /\ event_today' = (IF Forgotten THEN FALSE ELSE event_today \/ ret'.event)
    /\ UNCHANGED query

\* Every operation of the tracker, restarts of the host included, on the
\* coarse clock.
Next ==
    /\ \/ GetDailyStats
       \/ CheckTargetReached
       \/ ShouldAllowTrading
       \/ RecordWinningTrade
       \/ ResetDailyState
       \/ SaveState
       \/ LoadState
       \/ Update
       \/ Restart
       \/ CoarseTick
    /\ UNCHANGED history

Spec == Init /\ [][Next]_vars

\* The gating operations in every pacing configuration, on the
\* fine clock, the state file never written.
NextGate ==
    /\ \/ CheckTargetReached
       \/ ShouldAllowTrading
       \/ RecordSomeTrade
       \/ ResetDailyState
       \/ Tick
    /\ UNCHANGED history

SpecGate == InitGate /\ [][NextGate]_vars

\* One tracker through its days, what happened today recorded: the calls of
\* the host loop, no reload and no restart.
NextDay ==
    /\ \/ GetDailyStats
       \/ CheckTargetReached
       \/ ShouldAllowTrading
       \/ RecordSomeTrade
       \/ GetProgressReport
       \/ GetCompactProgress
       \/ Update
       \/ CoarseTick
    /\ Monitor

SpecDay == Init /\ [][NextDay]_vars

\* The calls one by one, the outcome of the history query on record.
DailyStatsOn(q) == GetDailyStatsWith(get_daily_stats(q, now)) /\ query' = q.kind
TargetReachedOn(q) == CheckTargetReachedWith(get_daily_stats(q, now)) /\ query' = q.kind

NextCalls ==
    /\ \/ \E q \in QueryResults : DailyStatsOn(q)
       \/ \E q \in QueryResults : TargetReachedOn(q)
       \/ (\E lot_size \in AnyLotSizes : CalculateTradeFee(lot_size)) /\ query' = ""
       \/ RecordAnyTrade /\ query' = ""
       \/ TrackTradeOpen /\ query' = ""
       \/ CloseSomeTrade /\ query' = ""
       \/ CoarseTick /\ query' = ""
    /\ UNCHANGED <<returned_true_today, event_today>>

SpecCalls == Init /\ [][NextCalls]_vars

\* The Friday countdown of a trading tracker, on the fine clock.
NextClock ==
    /\ \/ GetFridayTradingHoursRemaining
       \/ RecordSomeTrade
       \/ ResetDailyState
       \/ Tick
    /\ UNCHANGED history

SpecClock == Init /\ [][NextClock]_vars

\* The host loop: trades come in, the target is checked, update() is called.
NextLoop ==
    /\ \/ RecordSomeTrade
       \/ CheckTargetReached
       \/ Update
       \/ CoarseTick
    /\ UNCHANGED history

SpecLoop == Init /\ [][NextLoop]_vars

\* The tracker and a state file that others can damage.
NextFile ==
    /\ \/ RecordWinningTrade
       \/ SaveState
       \/ LoadState
       \/ DamageFile
       \/ CoarseTick
    /\ UNCHANGED history

SpecFile == Init /\ [][NextFile]_vars

\* ----------------------------------------------------------------- claims

\* C1: in every reachable state the stored net profit equals the stored gross
\* profit minus the stored total fees.
C1_NetIsGrossMinusFees ==
    net_profit_today = gross_profit_today - total_fees_today

\* C1 witness: a snapshot with fees in it has been loaded back into a tracker.
C1_Witness ==
    /\ ret.reason = "loaded"
    /\ trades_today > 0
    /\ total_fees_today > 0
    /\ net_profit_today # gross_profit_today

\* C2: once check_target_reached() has returned True on a date, every later
\* should_allow_trading() on that date denies with the target-reached reason,
\* and the flag is cleared only by a rollover to a later date.
C2_DeniesOnceTargetReturnedTrue ==
    [][ /\ (ShouldAllowTrading /\ returned_true_today) => ret'.reason = "target"
        /\ (daily_target_reached /\ ~daily_target_reached')
               => last_reset_date' > last_reset_date ]_vars

\* C3: the "DAILY TARGET REACHED" event is logged at most once per date.
C3_OneEventPerDay ==
    [][ (CheckTargetReached /\ ret'.event) => ~event_today ]_vars

\* C4: should_allow_trading() decides in the order rollover, target reached,
\* Friday close, pacing, allow: the reason is that of the first condition that
\* holds after the rollover check, and it allows exactly when none holds.
C4_PriorityOrder ==
    [][ ShouldAllowTrading =>
          LET newday == DateOf(now) > last_reset_date
              reached == daily_target_reached /\ ~newday
              closed == WeekdayOf(now) = FRIDAY /\ HourOf(now) >= friday_close_hour
              previous == IF newday THEN None ELSE last_trade_time
              paced ==
                  /\ enable_pacing
                  /\ previous # None
                  /\ TooSoon(now - Get(previous),
                             required_interval(pacing_mode,
                                               ret'.stats.target_percentage, now))
          IN  /\ ret'.reason = (IF reached THEN "target"
                                ELSE IF closed THEN "friday"
                                ELSE IF paced THEN "pacing"
                                ELSE "allowed")
              /\ ret'.ok = (~reached /\ ~closed /\ ~paced)
              /\ newday => ret'.reason # "target" ]_vars

\* C4 witness: the target was reached, the Friday close has passed and the
\* last trade is a second old; the call denied for the target.
C4_Witness ==
    /\ ret.reason = "target"
    /\ WeekdayOf(now) = FRIDAY
    /\ HourOf(now) >= friday_close_hour
    /\ enable_pacing
    /\ last_trade_time # None
    /\ now - Get(last_trade_time) < min_trade_interval_aggressive * TicksPerSecond

\* C5: a stats-producing or gating operation called on a date later than the
\* stored reset date leaves the reset date at today's date (it has performed
\* reset_daily_state).
C5_EveryOperationRollsOver ==
    [][ ( /\ \/ GetDailyStats
             \/ CheckTargetReached
             \/ GetProgressReport
             \/ GetCompactProgress
             \/ ShouldAllowTrading
             \/ Update
          /\ DateOf(now) > last_reset_date )
        => last_reset_date' = DateOf(now) ]_vars

\* the whole seconds in a span of ticks: the largest w with w seconds <= span
WholeSeconds(span) ==
    CHOOSE w \in 0..(span \div TicksPerSecond + 1) :
        w * TicksPerSecond <= span /\ span < (w + 1) * TicksPerSecond

\* C6 as stated: gentle pacing, a previous trade at T and no target or Friday
\* denial: the call at T + e denies exactly when e < the normal interval, with
\* the whole seconds of (normal interval - e) as the wait; with no previous
\* trade, or pacing disabled, pacing never denies.
C6_GentlePacingAtAnyDistance ==
    [][ ShouldAllowTrading =>
          LET normal == min_trade_interval_normal * TicksPerSecond
          IN  /\ ( /\ enable_pacing
                   /\ pacing_mode = "gentle"
                   /\ last_trade_time # None
                   /\ ret'.reason \notin {"target", "friday"} )
                 => LET e == now - Get(last_trade_time)
                    IN  IF e < normal
                        THEN /\ ret'.reason = "pacing"
                             /\ ~ret'.ok
                             /\ ret'.wait = WholeSeconds(normal - e)
                        ELSE ret'.ok
              /\ (~enable_pacing \/ last_trade_time = None) => ret'.reason # "pacing" ]_vars

\* C7: the required interval is the aggressive one in aggressive mode, the
\* normal one in gentle mode, and in adaptive mode the aggressive one exactly
\* when the target percentage of the stats is below
\* (hours elapsed today / 24 x 100) x adaptive threshold.
C7_IntervalByMode ==
    [][ ( /\ ShouldAllowTrading
          /\ enable_pacing
          /\ last_trade_time' # None
          /\ ret'.reason \in {"pacing", "allowed"} )
        => LET e == now - Get(last_trade_time')
               minutes == HourOf(now) * MinutesPerHour + MinuteOf(now)
               \* percentage / 10 < (minutes / 60 / 24 * 100) * (threshold / 100)
               behind == ret'.stats.target_percentage * MinutesPerHour * HoursPerDay
                             < minutes * 10 * adaptive_threshold
               required ==
                   IF pacing_mode = "aggressive" THEN min_trade_interval_aggressive
                   ELSE IF pacing_mode = "gentle" THEN min_trade_interval_normal
                   ELSE IF behind THEN min_trade_interval_aggressive
                   ELSE min_trade_interval_normal
           IN  /\ (ret'.reason = "pacing") = (e < required * TicksPerSecond)
               /\ ret'.reason = "pacing"
                      => ret'.wait = WholeSeconds(required * TicksPerSecond - e) ]_vars

\* C7 witness: adaptive mode behind schedule, a trade between the two
\* intervals old: the call allowed, as the aggressive interval had passed.
C7_Witness ==
    /\ pacing_mode = "adaptive"
    /\ enable_pacing
    /\ last_trade_time # None
    /\ now - Get(last_trade_time) >= min_trade_interval_aggressive * TicksPerSecond
    /\ now - Get(last_trade_time) < min_trade_interval_normal * TicksPerSecond
    /\ ret.reason = "allowed"
    /\ ret.stats.trades_count > 0

\* C8: with no target denial, should_allow_trading() denies with the Friday
\* reason exactly on a Friday at or after the close hour; a tracker whose
\* target flag is clear is never denied for the target.
C8_FridayGating ==
    [][ ShouldAllowTrading =>
          /\ ~daily_target_reached => ret'.reason # "target"
          /\ ret'.reason # "target"
                 => ( (ret'.reason = "friday")
                      = (WeekdayOf(now) = FRIDAY /\ HourOf(now) >= friday_close_hour) ) ]_vars

\* C8 witness: Friday, the first instant of the close hour, denied for Friday.
C8_Witness ==
    /\ ret.reason = "friday"
    /\ WeekdayOf(now) = FRIDAY
    /\ TimeOfDay(now) = HMS(friday_close_hour, 0, 0)

\* the date an ISO date text spells
StoredDate(file) == Get(file).json.date[2]

\* C9: a load_state() on the calendar day of the save_state() that wrote the
\* file leaves trade count, gross, fees, net and the target flag as saved.
C9_RoundTripSameDay ==
    [][ (LoadState /\ state_file # None /\ Get(state_file).mtime = DateOf(now))
        => LET saved == Get(state_file).json
           IN  /\ trades_today' = saved.trades_today
               /\ gross_profit_today' = saved.gross_profit
               /\ total_fees_today' = saved.total_fees
               /\ net_profit_today' = saved.net_profit
               /\ daily_target_reached' = saved.target_reached ]_vars

\* C10: load_state() on a snapshot whose stored date is not today's date
\* leaves every field of the daily state as it was.
C10_StaleSnapshotDiscarded ==
    [][ (LoadState /\ state_file # None /\ StoredDate(state_file) # DateOf(now))
        => UNCHANGED daily ]_vars

\* C10 witness: a snapshot of an earlier date was discarded by a tracker
\* whose counters differ from it.
C10_Witness ==
    /\ ret.reason = "different_date"
    /\ state_file # None
    /\ StoredDate(state_file) < DateOf(now)
    /\ Get(state_file).json.trades_today # trades_today

\* the file makes load_state() fail: it is missing or unreadable, or a field
\* load_state() parses is missing or not ISO
FailsToLoad(file) ==
    \/ file = None
    \/ "corrupt" \in DOMAIN Get(file).json
    \/ "date" \notin DOMAIN Get(file).json
    \/ ~Parsable(Get(file).json.date)
    \/ /\ Get(file).json.last_trade_time # None
       /\ ~Parsable(Get(Get(file).json.last_trade_time))

\* C11: a load_state() that hits a failure returns normally and leaves every
\* field of the daily state as it was.
C11_FailedLoadChangesNothing ==
    [][ (LoadState /\ FailsToLoad(state_file))
        => /\ ret'.reason \in {"no_file", "error", "different_date"}
           /\ UNCHANGED daily ]_vars

\* C12: a call whose trade-history query raised has returned normally, with
\* stats whose count, gross, fees, net, percentage and average are zero and
\* whose ETA is absent; check_target_reached() has returned False with them.
C12_ZeroStatsOnQueryFailure ==
    query = "raise" =>
        /\ ret.reason \in {"stats", "checked"}
        /\ ret.stats.trades_count = 0
        /\ ret.stats.gross_profit = 0
        /\ ret.stats.total_fees = 0
        /\ ret.stats.net_profit = 0
        /\ ret.stats.target_percentage = 0
        /\ ret.stats.average_profit_per_trade = 0
        /\ ret.stats.estimated_target_eta = None
        /\ ~ret.ok
        /\ ~ret.event

\* C12 witness: check_target_reached() came back from a raising query in a
\* tracker that has recorded trades.
C12_Witness ==
    /\ query = "raise"
    /\ ret.reason = "checked"
    /\ trades_today > 0
    /\ gross_profit_today > 0

\* C13: after reset_daily_state() the four counters are zero, the flag is
\* false, the last trade time is absent and the reset date is today's date,
\* whatever the state was before.
C13_ResetClearsTheDay ==
    [][ ResetDailyState =>
          /\ trades_today' = 0
          /\ gross_profit_today' = 0
          /\ total_fees_today' = 0
          /\ net_profit_today' = 0
          /\ daily_target_reached' = FALSE
          /\ last_trade_time' = None
          /\ last_reset_date' = DateOf(now) ]_vars

\* C13 witness: a reset on a later day than the snapshot the tracker saved
\* with trades in it, the reset date moved to today.
C13_Witness ==
    /\ ret.reason = "reset"
    /\ state_file # None
    /\ Get(state_file).json.trades_today > 0
    /\ StoredDate(state_file) < last_reset_date
    /\ last_reset_date = DateOf(now)
    /\ trades_today = 0
    /\ last_trade_time = None

\* C14: update() performs the rollover when the date has advanced, and then
\* writes the state file exactly when the trade count is greater than zero:
\* with no trades today, a rollover just performed included, the file is left
\* as it was.
C14_UpdatePersistsIffTrades ==
    [][ Update =>
          /\ IF DateOf(now) > last_reset_date
             THEN /\ last_reset_date' = DateOf(now)
                  /\ trades_today' = 0
                  /\ gross_profit_today' = 0
                  /\ total_fees_today' = 0
                  /\ net_profit_today' = 0
                  /\ daily_target_reached' = FALSE
                  /\ last_trade_time' = None
             ELSE UNCHANGED daily
          /\ IF trades_today' > 0
             THEN state_file' = Some([json |-> Snapshot', mtime |-> DateOf(now)])
             ELSE UNCHANGED state_file ]_vars

\* C14 witness: an update() on a new day rolled the tracker over and wrote
\* nothing: the file still holds the snapshot of the day before, trades in it.
C14_Witness ==
    /\ ret.reason = "reset"
    /\ trades_today = 0
    /\ last_reset_date = DateOf(now)
    /\ state_file # None
    /\ Get(state_file).mtime < DateOf(now)
    /\ Get(state_file).json.trades_today > 0

\* C15: record_trade(lot_size, profit) adds one to the trade count, the profit
\* to the gross and the fee of the lot size to the fees, sets the net to the
\* new gross minus the new fees and the last trade time to now, and leaves the
\* flag, the reset date and the state file alone; track_trade_close() does the
\* same and track_trade_open() changes nothing.
C15_RecordTradeFrame ==
    [][ /\ \A lot_size \in AnyLotSizes, profit \in Profits :
              (RecordTrade(lot_size, profit) \/ TrackTradeClose(lot_size, profit))
              => /\ trades_today' = trades_today + 1
                 /\ gross_profit_today' = gross_profit_today + profit
                 /\ total_fees_today' = total_fees_today + calculate_trade_fee(lot_size)
                 /\ net_profit_today' = gross_profit_today' - total_fees_today'
                 /\ last_trade_time' = Some(now)
                 /\ UNCHANGED <<daily_target_reached, last_reset_date, state_file>>
        /\ TrackTradeOpen => UNCHANGED <<daily, state_file>> ]_vars

\* C15 witness: track_trade_close() has recorded a trade in a tracker whose
\* target flag is set.
C15_Witness ==
    /\ ret.reason = "closed"
    /\ daily_target_reached
    /\ trades_today > 0
    /\ last_trade_time = Some(now)
    /\ net_profit_today = gross_profit_today - total_fees_today

\* C16: get_progress_report() and get_compact_progress() leave every field of
\* the daily state unchanged, whatever the trade-history source returns.
C16_ReportsChangeNothing ==
    [][ (GetProgressReport \/ GetCompactProgress) => UNCHANGED daily ]_vars

\* C17: calculate_trade_fee() called with a negative lot size fails with an
\* error instead of returning an amount, and no record_trade() lowers the
\* day's total fees.
C17_NegativeLotRejected ==
    [][ /\ \A lot_size \in AnyLotSizes :
              (lot_size < 0 /\ CalculateTradeFee(lot_size)) => ret'.reason = "ValueError"
        /\ \A lot_size \in AnyLotSizes, profit \in Profits :
              RecordTrade(lot_size, profit) => total_fees_today' >= total_fees_today ]_vars

\* C18: get_friday_trading_hours_remaining() returns nothing on a day that is
\* not Friday; on a Friday it returns the time until the close hour in hours
\* rounded to one decimal (within half a tenth of an hour of it), 0 at and
\* after the close, and never a negative number.
C18_FridayHoursRemaining ==
    [][ GetFridayTradingHoursRemaining =>
          LET close == DateOf(now) * DayTicks + friday_close_hour * SecondsPerHour * TicksPerSecond
              hour == SecondsPerHour * TicksPerSecond
          IN  IF WeekdayOf(now) # FRIDAY
              THEN ret'.reason = "no_hours"
              ELSE /\ ret'.reason = "hours"
                   /\ ret'.wait >= 0
                   /\ now >= close => ret'.wait = 0
                   /\ now < close =>
                          /\ 2 * (ret'.wait * hour - 10 * (close - now)) <= hour
                          /\ 2 * (10 * (close - now) - ret'.wait * hour) <= hour ]_vars

\* C18 witness: asked in the last minute of a Friday, after the close: 0.
C18_Witness ==
    /\ ret.reason = "hours"
    /\ WeekdayOf(now) = FRIDAY
    /\ TimeOfDay(now) = HMS(23, 59, 0)
    /\ ret.wait = 0

\* C19: should_allow_trading() does not allow while the stored gross profit
\* of today is at or above the daily target.
C19_NoAllowAtOrAboveTarget ==
    [][ ( /\ ShouldAllowTrading
          /\ DateOf(now) = last_reset_date
          /\ gross_profit_today >= Target
          /\ gross_profit_today' >= Target )
        => ~ret'.ok ]_vars

\* C20: a trade recorded on today's date stays in the trade count and in the
\* last trade time through every should_allow_trading() and update() of the
\* same date.
C20_TradeOfTodayStays ==
    [][ ( /\ ShouldAllowTrading \/ Update
          /\ last_trade_time # None
          /\ DateOf(Get(last_trade_time)) = DateOf(now) )
        => /\ last_trade_time' = last_trade_time
           /\ trades_today' > 0 ]_vars

\* C21: while the date is the stored reset date, should_allow_trading() in
\* any pacing mode leaves the trade count, gross, fees, net, the flag, the last
\* trade time and the reset date unchanged.
C21_GateReadsOnly ==
    [][ (ShouldAllowTrading /\ DateOf(now) = last_reset_date) => UNCHANGED daily ]_vars

\* C22: get_daily_stats() overwrites the stored trade count, gross, fees and
\* net with the totals of the source exactly when the source returns at least
\* one closing deal of this magic number and symbol; when the query fails,
\* returns no deals or no matching deal, and whenever the stats returned are
\* all zero, the stored counters keep their values.
C22_StatsOverwriteOnlyOnMatch ==
    [][ \A q \in QueryResults :
          DailyStatsOn(q) =>
            LET matching ==
                    SelectSeq(q.deals,
                              LAMBDA d : d.magic = magic_number /\ d.symbol = symbol /\ d.entry = 1)
            IN  /\ IF q.kind = "deals" /\ Len(matching) > 0
                   THEN /\ trades_today' = Len(matching)
                        /\ gross_profit_today' = SumProfit(matching)
                        /\ total_fees_today' = SumFees(matching)
                        /\ net_profit_today' = gross_profit_today' - total_fees_today'
                        /\ ret'.stats.trades_count = Len(matching)
                   ELSE /\ ret'.stats = ZeroStats
                        /\ UNCHANGED <<trades_today, gross_profit_today,
                                       total_fees_today, net_profit_today>>
                /\ ret'.stats = ZeroStats
                       => UNCHANGED <<trades_today, gross_profit_today,
                                      total_fees_today, net_profit_today>> ]_vars

\* C22 witness: a tracker that has recorded a trade read one closing deal, a
\* unit short of the target, from the source: the counters are that deal's.
C22_Witness ==
    /\ query = "deals"
    /\ ret.reason = "stats"
    /\ last_trade_time # None
    /\ trades_today = 1
    /\ gross_profit_today = Target - 1
    /\ total_fees_today = calculate_trade_fee(LotScale)
    /\ net_profit_today = gross_profit_today - total_fees_today

====
